---- MODULE Spec2Model ----
(***************************************************************************)
(* net-echo (src/main.py): the request handlers get_api_root,              *)
(* get_root_view and get_plain_ip, and get_request_info, which assembles   *)
(* one RequestInfo per request from the client address, the override       *)
(* headers, reverse DNS and the registry (whoisit) lookup.                 *)
(*                                                                         *)
(* Python values are modelled as follows.                                  *)
(*   - None is the empty sequence, a present value v is <<v>>.             *)
(*   - A string that the code takes apart (strip, lower, startswith) is a  *)
(*     sequence of chunks: "X-Client-Port" is <<"X-", "Client-Port">>,     *)
(*     " " is a chunk of whitespace.                                       *)
(*   - A dict is a function; d.get(k) is Get(d, k).                        *)
(*   - A call that may raise yields [ok |-> TRUE, val |-> v] or            *)
(*     [ok |-> FALSE, exc |-> "<exception type>"].                         *)
(***************************************************************************)
EXTENDS Integers, Sequences, FiniteSets, TLC

VARIABLES
    header_client_port,         \* module globals, read from the environment
    header_http_version,
    header_transport_protocol,
    header_request_time,
    pc,                         \* "idle" | "received" | "responded"
    request,                    \* the request being handled
    net,                        \* what DNS, the registry and random answered
    whois_calls,                \* calls of whoisit.ip_async for this request
    response                    \* what the client gets

vars == <<header_client_port, header_http_version, header_transport_protocol,
          header_request_time, pc, request, net, whois_calls, response>>

\* Number of templates of ip_fun_fact's catalog the model draws from.
MaxFacts == 2

None == <<>>
Some(v) == <<v>>
Ok(v) == [ok |-> TRUE, val |-> v]
Raise(e) == [ok |-> FALSE, exc |-> e]
Get(d, k) == IF k \in DOMAIN d THEN Some(d[k]) ELSE None
GetOr(d, k, default) == IF k \in DOMAIN d THEN d[k] ELSE default

(***************************************************************************)
(* Strings                                                                 *)
(***************************************************************************)
LowerStr(s) ==
    CASE s = "X-" -> "x-"
      [] s = "Client-Port" -> "client-port"
      [] s = "Http-Version" -> "http-version"
      [] s = "Transport-Protocol" -> "transport-protocol"
      [] s = "Request-Time" -> "request-time"
      [] s = "UDP" -> "udp"
      [] OTHER -> s

Lower(name) == [i \in 1..Len(name) |-> LowerStr(name[i])]

StartsWith(name, prefix) == Len(name) >= 1 /\ name[1] = prefix

RECURSIVE LStrip(_)
LStrip(t) == IF t # <<>> /\ Head(t) = " " THEN LStrip(Tail(t)) ELSE t

RECURSIVE RStrip(_)
RStrip(t) ==
    IF t # <<>> /\ t[Len(t)] = " " THEN RStrip(SubSeq(t, 1, Len(t) - 1)) ELSE t

Strip(t) == RStrip(LStrip(t))

HasDot(t) ==
    \E i \in 1..Len(t) :
        t[i] \in {"dns.google", "one.one.one.one", "echo.example.net",
                  "10.0.0.1", "127.0.0.1", "169.254.0.1", "224.0.0.1", "8.8.8.8",
                  "::ffff:8.8.8.8"}

(***************************************************************************)
(* Configuration: os.getenv with its default, once at import.              *)
(***************************************************************************)
\* os.getenv(name, default): the default "X-..." when the variable is not
\* set, and a name without the X- prefix when the deployment sets it.
getenv(is_set, default) == IF is_set THEN Tail(default) ELSE default

(***************************************************************************)
(* ipaddress                                                               *)
(***************************************************************************)
\* The addresses of the model, with what ipaddress says of each: its text
\* (str), version, is_global, is_private, is_loopback, is_link_local,
\* is_multicast and reverse_pointer. is_global is `not is_private` outside
\* 100.64.0.0/10, so a multicast address is global. str writes an IPv6
\* address in hextets throughout: the IPv4-mapped ::ffff:8.8.8.8, the
\* address of an IPv4 client on a dual-stack socket, is "::ffff:808:808"
\* (up to Python 3.12; later versions write the mapped form dotted, and
\* still write ::8.8.8.8 as "::808:808").
IpLiterals ==
    [h \in {"10.0.0.1", "127.0.0.1", "169.254.0.1", "224.0.0.1", "8.8.8.8",
            "2606:4700:0:0:0:0:0:1111", "::ffff:8.8.8.8"} |->
        CASE h = "10.0.0.1" ->
               [text |-> <<"10.0.0.1">>, version |-> 4, is_global |-> FALSE,
                is_private |-> TRUE, is_loopback |-> FALSE, is_link_local |-> FALSE,
                is_multicast |-> FALSE,
                reverse_pointer |->
                    "1.0.0.10.in-addr.arpa"]
          [] h = "127.0.0.1" ->
               [text |-> <<"127.0.0.1">>, version |-> 4, is_global |-> FALSE,
                is_private |-> TRUE, is_loopback |-> TRUE, is_link_local |-> FALSE,
                is_multicast |-> FALSE,
                reverse_pointer |->
                    "1.0.0.127.in-addr.arpa"]
          [] h = "169.254.0.1" ->
               [text |-> <<"169.254.0.1">>, version |-> 4, is_global |-> FALSE,
                is_private |-> TRUE, is_loopback |-> FALSE, is_link_local |-> TRUE,
                is_multicast |-> FALSE,
                reverse_pointer |->
                    "1.0.254.169.in-addr.arpa"]
          [] h = "224.0.0.1" ->
               [text |-> <<"224.0.0.1">>, version |-> 4, is_global |-> TRUE,
                is_private |-> FALSE, is_loopback |-> FALSE, is_link_local |-> FALSE,
                is_multicast |-> TRUE,
                reverse_pointer |->
                    "1.0.0.224.in-addr.arpa"]
          [] h = "8.8.8.8" ->
               [text |-> <<"8.8.8.8">>, version |-> 4, is_global |-> TRUE,
                is_private |-> FALSE, is_loopback |-> FALSE, is_link_local |-> FALSE,
                is_multicast |-> FALSE,
                reverse_pointer |->
                    "8.8.8.8.in-addr.arpa"]
          [] h = "2606:4700:0:0:0:0:0:1111" ->
               [text |-> <<"2606:4700::1111">>, version |-> 6, is_global |-> TRUE,
                is_private |-> FALSE, is_loopback |-> FALSE, is_link_local |-> FALSE,
                is_multicast |-> FALSE,
                reverse_pointer |->
                    "1.1.1.1.0.0.0.0.0.0.0.0.0.0.0.0.0.0.0.0.0.0.0.0.0.0.7.4.6.0.6.2.ip6.arpa"]
          [] h = "::ffff:8.8.8.8" ->
               [text |-> <<"::ffff:808:808">>, version |-> 6, is_global |-> TRUE,
                is_private |-> FALSE, is_loopback |-> FALSE, is_link_local |-> FALSE,
                is_multicast |-> FALSE,
                reverse_pointer |->
                    "8.0.8.0.8.0.8.0.f.f.f.f.0.0.0.0.0.0.0.0.0.0.0.0.0.0.0.0.0.0.0.0.ip6.arpa"]]

\* ipaddress.ip_address(s): the parsed address, or ValueError.
ip_address(s) ==
    IF s \in DOMAIN IpLiterals THEN Ok(IpLiterals[s]) ELSE Raise("ValueError")

\* str(client_ip): the canonical text of the address.
str(ip) == ip.text

(***************************************************************************)
(* The network, as one request sees it: n.nameinfo is what getnameinfo     *)
(* does ("gaierror": it raises, "numeric": no PTR record, so it returns the *)
(* address as text, "ptr": it returns the PTR name), n.hostbyaddr what      *)
(* gethostbyaddr inside getfqdn does, n.whois what whoisit.ip_async does,   *)
(* n.fact the template random.choice picks.                                *)
(***************************************************************************)
RegistryFull ==
    [url |-> "https://rdap.arin.net/registry/ip/8.8.8.0", country |-> "US",
     name |-> "GOGL", description |-> <<"Google LLC">>,
     entities |-> [registrant |-> <<[name |-> "Google LLC"]>>]]

RegistryNoCountry ==
    [url |-> "https://rdap.arin.net/registry/ip/8.8.8.0",
     entities |-> [registrant |-> <<[handle |-> "GOGL"]>>]]

RegistryNoEntities ==
    [url |-> "https://rdap.arin.net/registry/ip/8.8.8.0", country |-> "US",
     name |-> "GOGL"]

RegistryNoRegistrant ==
    [url |-> "https://rdap.arin.net/registry/ip/8.8.8.0", country |-> "US",
     name |-> "GOGL", entities |-> [abuse |-> <<[name |-> "Abuse"]>>]]

RegistryEmptyRegistrant ==
    [url |-> "https://rdap.arin.net/registry/ip/8.8.8.0", country |-> "US",
     name |-> "GOGL", entities |-> [registrant |-> <<>>]]

WhoisAnswers ==
    {Raise("QueryError")} \cup
    {Ok(d) : d \in {RegistryFull, RegistryNoCountry, RegistryNoEntities,
                    RegistryNoRegistrant, RegistryEmptyRegistrant}}

\* line 142: the registry is asked for global addresses only.
NeedsRegistry(client_ip) == client_ip.is_global

\* The answers a request from `host` can meet: gethostbyaddr is reached only
\* when getnameinfo returned, the registry only when the code asks it.
Net(host) ==
    {n \in [nameinfo : {"gaierror", "numeric", "ptr"},
            hostbyaddr : {"", "herror", "names"},
            whois : {None} \cup {Some(a) : a \in WhoisAnswers},
            fact : 1..MaxFacts] :
        /\ (n.hostbyaddr = "") <=> (n.nameinfo = "gaierror")
        /\ (n.whois = None) <=>
             (host \notin DOMAIN IpLiterals \/ ~NeedsRegistry(IpLiterals[host]))}

\* The C library's text of an address (inet_ntop), which getnameinfo returns
\* for an address without a name: an IPv4-mapped address is written dotted.
inet_ntop(host) ==
    IF host = <<"::ffff:808:808">> THEN <<"::ffff:8.8.8.8">> ELSE host

\* socket.getnameinfo((str(client_ip), 0), 0)[0]
getnameinfo(host, n) ==
    CASE n.nameinfo = "gaierror" -> Raise("gaierror")
      [] n.nameinfo = "numeric" -> Ok(inet_ntop(host))
      [] OTHER -> Ok(<<"echo.example.net">>)

gethostname == <<"net-echo">>

\* socket.gethostbyaddr(name): (hostname, aliases), or herror.
gethostbyaddr(name, n) ==
    IF n.hostbyaddr = "herror" THEN Raise("herror")
    ELSE Ok(<< <<"echo">>, <<"echo.example.net">> >>)

\* socket.getfqdn(name): never raises; the first of hostname and aliases with
\* a dot in it, the hostname when none has, the name itself on herror.
getfqdn(name, n) ==
    LET stripped == Strip(name)
        asked == IF stripped = <<>> \/ stripped \in {<<"0.0.0.0">>, <<"::">>}
                 THEN gethostname ELSE stripped
        found == gethostbyaddr(asked, n)
        dotted == IF found.ok
                  THEN {i \in 1..Len(found.val) : HasDot(found.val[i])}
                  ELSE {}
    IN IF ~found.ok THEN asked
       ELSE IF dotted = {} THEN found.val[1]
       ELSE found.val[CHOOSE i \in dotted : \A j \in dotted : i <= j]

(***************************************************************************)
(* get_request_info, line by line                                          *)
(***************************************************************************)
\* lines 122-123: None when the lookup only gave the address back.
ReverseDnsOrNone(client_reverse_dns, client_ip) ==
    IF Strip(client_reverse_dns) = str(client_ip) THEN None
    ELSE Some(client_reverse_dns)

\* line 125
HttpVersion(req, headers) ==
    GetOr(headers, Lower(header_http_version), req.http_version)

\* line 126 with the header taking precedence over the socket's port.
ClientPortHeaderFirst(req, headers) ==
    IF Lower(header_client_port) \in DOMAIN headers
    THEN [str |-> headers[Lower(header_client_port)]]
    ELSE [int |-> req.port]

\* line 126: an int from the socket, or whatever the header holds (a str).
ClientPort(req, headers) ==
    IF req.port # 0 THEN [int |-> req.port]
    ELSE IF Lower(header_client_port) \in DOMAIN headers
         THEN [str |-> headers[Lower(header_client_port)]]
         ELSE [int |-> 0]

\* line 127
TransportProtocol(headers) ==
    LowerStr(GetOr(headers, Lower(header_transport_protocol), "tcp"))

\* datetime.datetime.fromisoformat
fromisoformat(s) ==
    CASE s = "2024-01-01T00:00:00+00:00" ->
           Ok([instant |-> "2024-01-01T00:00:00Z", utcoffset |-> "+00:00"])
      [] OTHER -> Raise("ValueError")

\* .astimezone(tz): the same instant at the zone's offset (Europe/Berlin).
astimezone(dt) == [dt EXCEPT !.utcoffset = "+01:00"]

\* lines 128-132
RequestTime(headers) ==
    LET request_time == Get(headers, Lower(header_request_time))
    IN IF request_time = None \/ request_time = Some("")
       THEN Ok([instant |-> "now", utcoffset |-> "+01:00"])
       ELSE LET parsed == fromisoformat(request_time[1])
            IN IF parsed.ok THEN Ok(astimezone(parsed.val)) ELSE parsed

\* lines 134-139: every header whose name starts with "x-" is dropped.
StripHeaders(headers) ==
    [h \in {k \in DOMAIN headers : ~StartsWith(Lower(k), "x-")} |-> headers[h]]

\* line 143: await whoisit.ip_async(client_ip, ...)
ip_async(client_ip, n) == n.whois[1]

\* `x if client_ip_info else None`: None and the empty dict are falsy.
Truthy(client_ip_info) ==
    client_ip_info # None /\ DOMAIN client_ip_info[1] # {}

\* lines 151-153, 155: client_ip_info.get(key) if client_ip_info else None
InfoField(client_ip_info, key) ==
    IF Truthy(client_ip_info) THEN Get(client_ip_info[1], key) ELSE None

\* line 154: .get("entities").get("registrant")[0].get("name")
Registrant(client_ip_info) ==
    IF ~Truthy(client_ip_info) THEN Ok(None)
    ELSE LET entities == Get(client_ip_info[1], "entities")
         IN IF entities = None THEN Raise("AttributeError")
            ELSE LET registrant == Get(entities[1], "registrant")
                 IN IF registrant = None THEN Raise("TypeError")
                    ELSE IF registrant[1] = <<>> THEN Raise("IndexError")
                    ELSE Ok(Get(registrant[1][1], "name"))

\* pydantic's validation of `client_port: int`: an int as it is, a str parsed.
ValidateInt(v) ==
    IF "int" \in DOMAIN v THEN Ok(v.int)
    ELSE CASE v.str = "4242" -> Ok(4242)
           [] v.str = "-5" -> Ok(-5)
           [] OTHER -> Raise("ValidationError")

\* lines 68-102: one template of the catalog, picked at random.
ip_fun_fact(ip, n) == <<n.fact, str(ip)>>

Outcome(result, calls) == [result |-> result, calls |-> calls]

\* lines 114-177
get_request_info(req, fill_http_info, n) ==
    LET parsed == ip_address(req.host)
    IN IF ~parsed.ok THEN Outcome(parsed, {}) ELSE
    LET client_ip == parsed.val
        named == getnameinfo(str(client_ip), n)
    IN IF ~named.ok THEN Outcome(named, {"getnameinfo"}) ELSE
    LET dns == {"getnameinfo", "gethostbyaddr"}
        client_reverse_dns == ReverseDnsOrNone(getfqdn(named.val, n), client_ip)
        headers == req.headers
        http_version == HttpVersion(req, headers)
        client_port == ClientPort(req, headers)
        transport_protocol == TransportProtocol(headers)
        request_time == RequestTime(headers)
    IN IF ~request_time.ok THEN Outcome(request_time, dns) ELSE
    LET asked == NeedsRegistry(client_ip)
        lookups == IF asked THEN dns \cup {"whois"} ELSE dns
        answer == IF asked THEN ip_async(client_ip, n) ELSE Ok(<<>>)
    IN IF ~answer.ok THEN Outcome(answer, lookups) ELSE
    LET client_ip_info == IF asked THEN Some(answer.val) ELSE None
        registrant == Registrant(client_ip_info)
    IN IF ~registrant.ok THEN Outcome(registrant, lookups) ELSE
    LET port == ValidateInt(client_port)
    IN IF ~port.ok THEN Outcome(port, lookups \cup {"random"}) ELSE
    Outcome(
        Ok([address_info |->
                [ip |-> str(client_ip),
                 ip_version |-> client_ip.version,
                 reverse_dns |-> client_reverse_dns,
                 reverse_pointer |-> client_ip.reverse_pointer,
                 ip_info_url |-> InfoField(client_ip_info, "url"),
                 country |-> InfoField(client_ip_info, "country"),
                 entity_name |-> InfoField(client_ip_info, "name"),
                 registrant |-> registrant.val,
                 description |-> InfoField(client_ip_info, "description"),
                 fun_fact |-> ip_fun_fact(client_ip, n)],
            http_info |->
                IF fill_http_info
                THEN Some([method |-> req.method,
                           version |-> http_version,
                           headers |-> StripHeaders(headers),
                           body |-> req.body,
                           is_https |-> (req.scheme = "https"),
                           transport_protocol |-> transport_protocol,
                           url |-> req.url,
                           path |-> req.route,
                           query |-> req.query])
                ELSE None,
            client_port |-> port.val,
            request_hostname |-> req.hostname,
            scheme |-> req.scheme,
            request_time |-> request_time.val]),
        lookups \cup {"random"})

(***************************************************************************)
(* Requests                                                                *)
(***************************************************************************)
SUPPORTED_REQUEST_METHODS == {"GET", "HEAD", "POST"}

\* dict(request.headers): lower-case names; an override header is there or
\* not, an ordinary header and a caller's own x- header always are.
\* A proxy that reports the protocol version reports the transport as well.
HeaderValues ==
    {v \in [client_port : {None, Some("4242"), Some("-5"), Some("abc")},
            http_version : {None, Some("2")},
            transport_protocol : {None, Some("UDP")},
            request_time : {None, Some("2024-01-01T00:00:00+00:00"),
                            Some("not-a-date"), Some("")}] :
        (v.http_version = None) <=> (v.transport_protocol = None)}

Headers(v) ==
    LET sent == {p \in {<<Lower(header_client_port), v.client_port>>,
                        <<Lower(header_http_version), v.http_version>>,
                        <<Lower(header_transport_protocol), v.transport_protocol>>,
                        <<Lower(header_request_time), v.request_time>>} :
                    p[2] # None}
        own == {<<"accept">>, <<"x-", "real-ip">>}
    IN [k \in {p[1] : p \in sent} \cup own |->
            IF k \in {p[1] : p \in sent}
            THEN (CHOOSE p \in sent : p[1] = k)[2][1]
            ELSE "*"]

\* The query parameter http_info of /api/v1: "" when the URL has none.
Queries == {"", "http_info=true", "http_info=false"}

Requests ==
    {[route |-> r[1], method |-> r[2], query |-> r[3], host |-> h, port |-> p,
      headers |-> Headers(v), scheme |-> "http", http_version |-> "1.1",
      hostname |-> Some("net-echo.example"), url |-> "http://net-echo.example",
      body |-> ""] :
        r \in ({"/api/v1"} \X SUPPORTED_REQUEST_METHODS \X Queries)
                \cup ({"/"} \X SUPPORTED_REQUEST_METHODS \X {""})
                \cup {<<"/plain", "GET", "">>},
        h \in DOMAIN IpLiterals \cup {"testclient"},
        p \in {0, 51000},
        v \in HeaderValues}

NoRequest == [route |-> "", method |-> ""]
NoNet == [nameinfo |-> "", hostbyaddr |-> "", whois |-> None, fact |-> 0]
NoResponse == [status |-> 0, media |-> "", info |-> None, text |-> "", exc |-> ""]

\* The answers the request consumed; the others are not part of the run.
Used(n, calls) ==
    [nameinfo |-> IF "getnameinfo" \in calls THEN n.nameinfo ELSE "",
     hostbyaddr |-> IF "gethostbyaddr" \in calls THEN n.hostbyaddr ELSE "",
     whois |-> IF "whois" \in calls THEN n.whois ELSE None,
     fact |-> IF "random" \in calls THEN n.fact ELSE 0]

WhoisCalls(calls) == IF "whois" \in calls THEN 1 ELSE 0

\* An unhandled exception: Starlette answers 500.
ServerError(exc) ==
    [status |-> 500, media |-> "text", info |-> None,
     text |-> "Internal Server Error", exc |-> exc]

\* line 210: http_info: bool = False
HttpInfoParam(req) == req.query = "http_info=true"

\* lines 209-214: what the endpoint returns (None on HEAD).
get_api_root(req, n) ==
    IF req.method = "HEAD" THEN Outcome(Ok(None), {})
    ELSE LET built == get_request_info(req, HttpInfoParam(req), n)
         IN IF built.result.ok
            THEN Outcome(Ok(Some(built.result.val)), built.calls)
            ELSE built

\* line 210, `-> RequestInfo`: FastAPI takes the return annotation as the
\* response model and validates what the endpoint returned against it
\* (validates = TRUE); a FastAPI that ignores return annotations does not.
SerializeResponse(returned, validates) ==
    IF returned = None
    THEN IF validates THEN ServerError("ResponseValidationError")
         ELSE [status |-> 200, media |-> "json", info |-> None, text |-> "",
               exc |-> ""]
    ELSE [status |-> 200, media |-> "json", info |-> returned, text |-> "",
          exc |-> ""]

(***************************************************************************)
(* Actions                                                                 *)
(***************************************************************************)
Init ==
    /\ \E is_set \in BOOLEAN :
          /\ header_client_port = getenv(is_set, <<"X-", "Client-Port">>)
          /\ header_http_version = getenv(is_set, <<"X-", "Http-Version">>)
          /\ header_transport_protocol =
                getenv(is_set, <<"X-", "Transport-Protocol">>)
          /\ header_request_time = getenv(is_set, <<"X-", "Request-Time">>)
    /\ pc = "idle"
    /\ request = NoRequest
    /\ net = NoNet
    /\ whois_calls = 0
    /\ response = NoResponse

Config == <<header_client_port, header_http_version, header_transport_protocol,
            header_request_time>>

\* The router hands a request to its endpoint.
Receive ==
    /\ pc = "idle"
    /\ request' \in Requests
    /\ pc' = "received"
    /\ UNCHANGED <<Config, net, whois_calls, response>>

\* lines 209-214
GetApiRoot ==
    /\ pc = "received"
    /\ request.route = "/api/v1"
    /\ \E n \in Net(request.host),
          validates \in IF request.method = "HEAD" THEN BOOLEAN ELSE {TRUE} :
          LET out == get_api_root(request, n)
          IN /\ net' = Used(n, out.calls)
             /\ whois_calls' = WhoisCalls(out.calls)
             /\ response' = IF out.result.ok
                             THEN SerializeResponse(out.result.val, validates)
                             ELSE ServerError(out.result.exc)
    /\ pc' = "responded"
    /\ UNCHANGED <<Config, request>>

\* lines 192-202
GetRootView ==
    /\ pc = "received"
    /\ request.route = "/"
    /\ \E n \in Net(request.host) :
          LET out == get_request_info(request, TRUE, n)
          IN /\ net' = Used(n, out.calls)
             /\ whois_calls' = WhoisCalls(out.calls)
             /\ response' = IF out.result.ok
                             THEN [status |-> 200, media |-> "html",
                                   info |-> Some(out.result.val), text |-> "",
                                   exc |-> ""]
                             ELSE ServerError(out.result.exc)
    /\ pc' = "responded"
    /\ UNCHANGED <<Config, request>>

\* lines 205-207
GetPlainIp ==
    /\ pc = "received"
    /\ request.route = "/plain"
    /\ response' = [status |-> 200, media |-> "text", info |-> None,
                    text |-> request.host, exc |-> ""]
    /\ pc' = "responded"
    /\ UNCHANGED <<Config, request, net, whois_calls>>

\* The response is sent and everything built for the request is dropped.
Send ==
    /\ pc = "responded"
    /\ pc' = "idle"
    /\ request' = NoRequest
    /\ net' = NoNet
    /\ whois_calls' = 0
    /\ response' = NoResponse
    /\ UNCHANGED Config

Next == Receive \/ GetApiRoot \/ GetRootView \/ GetPlainIp \/ Send

Spec == Init /\ [][Next]_vars

(***************************************************************************)
(* Properties                                                              *)
(***************************************************************************)
\* The request went through get_request_info (HEAD on /api/v1 and /plain do not).
Assembling ==
    /\ pc = "responded"
    /\ \/ request.route = "/"
       \/ request.route = "/api/v1" /\ request.method # "HEAD"

\* get_request_info returned a RequestInfo, which the response carries.
Assembled == Assembling /\ response.status = 200 /\ response.info # None

Info == response.info[1]
ClientIp == IpLiterals[request.host]
ValidHost == request.host \in DOMAIN IpLiterals

RegistryFields(a) ==
    <<a.ip_info_url, a.country, a.registrant, a.entity_name, a.description>>

NoRegistryFields(a) == \A i \in 1..5 : RegistryFields(a)[i] = None

\* Not globally routable, as the specification classifies addresses.
Reserved(ip) ==
    ip.is_private \/ ip.is_loopback \/ ip.is_link_local \/ ip.is_multicast

\* C1: for a private, loopback, link-local or multicast client address the
\* registry is never asked, and the five registry fields of a returned
\* AddressInfo are all null.
C1_NonGlobalNoRegistry ==
    (Assembling /\ ValidHost /\ Reserved(ClientIp)) =>
        /\ whois_calls = 0
        /\ net.whois = None
        /\ Assembled => NoRegistryFields(Info.address_info)

RequestTimeHeader == Get(request.headers, Lower(header_request_time))

\* The handler got as far as reading the request-time header (line 128).
ReachedHeaders == Assembling /\ ValidHost /\ net.nameinfo # "gaierror"

\* C2: a request-time header that is present and not ISO-8601 ends in a 4xx
\* response, never in a 500 and never in a successful response.
C2_MalformedTimeIsClientError ==
    (/\ ReachedHeaders
     /\ RequestTimeHeader # None
     /\ ~fromisoformat(RequestTimeHeader[1]).ok) =>
        response.status \in 400..499

MissingRegistrant(d) ==
    \/ "entities" \notin DOMAIN d
    \/ "registrant" \notin DOMAIN d.entities
    \/ d.entities.registrant = <<>>

\* C3: when the registry answers without a registrant (no entities, no
\* registrant under them, or an empty registrant list) a RequestInfo with
\* registrant null is still returned.
C3_MissingRegistrantIsNull ==
    (/\ Assembling
     /\ net.whois # None
     /\ net.whois[1].ok
     /\ MissingRegistrant(net.whois[1].val)) =>
        /\ Assembled
        /\ Info.address_info.registrant = None

\* C4: when the registry lookup itself fails the response is a normal one in
\* which every registry field is null.
C4_RegistryFailureDegrades ==
    (Assembling /\ net.whois # None /\ ~net.whois[1].ok) =>
        /\ Assembled
        /\ NoRegistryFields(Info.address_info)

ClientPortHeader == Get(request.headers, Lower(header_client_port))

\* C5: a returned RequestInfo has the socket's port when that is not 0, the
\* header's number when the socket's port is 0 and the header is there, and
\* 0 when the socket's port is 0 and the header is not there.
C5_ClientPortResolution ==
    Assembled =>
        /\ request.port # 0 => Info.client_port = request.port
        /\ (request.port = 0 /\ ClientPortHeader # None) =>
              Info.client_port = ValidateInt([str |-> ClientPortHeader[1]]).val
        /\ (request.port = 0 /\ ClientPortHeader = None) => Info.client_port = 0

C5_Witness ==
    /\ Assembled
    /\ request.port = 0
    /\ ClientPortHeader = Some("4242")
    /\ Info.client_port = 4242

OverrideHeaders ==
    {header_client_port, header_http_version, header_transport_protocol,
     header_request_time}

\* C6: whatever the four override header names are set to, the headers of a
\* returned HttpInfo hold none of them (names compared without case).
C6_OverrideHeadersStripped ==
    (Assembled /\ Info.http_info # None) =>
        \A name \in OverrideHeaders :
            \A k \in DOMAIN Info.http_info[1].headers : Lower(k) # Lower(name)

\* The client address has no PTR record: getnameinfo falls back to the
\* address as text and gethostbyaddr, inside getfqdn, finds no name for it.
NoPtrRecord == net.nameinfo = "numeric" /\ net.hostbyaddr = "herror"

\* C7: for a client address without a PTR record reverse_dns is null;
\* reverse_dns of a returned RequestInfo is never the text of
\* address_info.ip.
C7_NoPtrIsNull ==
    Assembled =>
        /\ NoPtrRecord => Info.address_info.reverse_dns = None
        /\ Info.address_info.reverse_dns # Some(Info.address_info.ip)

\* C8: when the PTR lookup fails the request is still answered with a
\* RequestInfo whose reverse_dns is null.
C8_ReverseDnsNeverAborts ==
    (Assembling /\ ValidHost /\ net.nameinfo = "gaierror") =>
        /\ Assembled
        /\ Info.address_info.reverse_dns = None

\* C9: client_port of a returned RequestInfo is never negative.
C9_ClientPortNonNegative == Assembled => Info.client_port >= 0

\* C10: on /api/v1 a HEAD request gets an empty body with a normal status and
\* no lookup is made; for the other methods a returned RequestInfo has
\* http_info exactly when the query parameter http_info is true.
C10_HeadAndHttpInfo ==
    (pc = "responded" /\ request.route = "/api/v1") =>
        IF request.method = "HEAD"
        THEN response.status = 200 /\ response.info = None /\ net = NoNet
        ELSE Assembled =>
               ((Info.http_info # None) <=> (request.query = "http_info=true"))

====
